---------------------------- MODULE Spec2Model ----------------------------
(***************************************************************************)
(* Shock Wave Formation Simulation (sketch.js): the frame loop draw(), the *)
(* button, slider and mouse handlers, and the pure functions of the        *)
(* physics module.                                                         *)
(*                                                                         *)
(* Numbers.  The Mach slider moves in steps of 0.05, so a Mach number is   *)
(* held as the integer mach * MachScale (MachScale = 20).  A length is     *)
(* held in units of 1/MachScale pixel, which makes the drift of one frame, *)
(* mach * speedOfSound pixels, the integer (mach * MachScale) *            *)
(* speedOfSound.  dist() is a square root: the model keeps the squared     *)
(* distance and compares squares (all radii and distances are >= 0).       *)
(* A flash level (barrierFlash, sonicBoomFlash, observerFlash) decays by a *)
(* constant factor each frame until it drops below 0.01; the model holds   *)
(* the number of decay steps left, so Steps means level 1 and 0 means 0.   *)
(* observedFrequency is held in thousandths of a wave per second.          *)
(***************************************************************************)
EXTENDS Integers, Sequences, FiniteSets

(* ------------------------------ constants ------------------------------ *)
MachScale == 20
Width == 900
Height == 500
SourceStartPx == 150
ObserverStartOffset == 200
speedOfSound == 2
InitialInterval == 20
MaxRadius == 600
RetireMargin == 100
WrapMargin == 50
BoomThreshold == 3
HitWindowMs == 2000
GrabRadius == 20
ObserverMargin == 20
BarrierFlashSteps == 44
SonicBoomFlashSteps == 29
ObserverFlashSteps == 21
SliderMin == 0
SliderMax == 3
Cents == 100
KeyStep == 10
Milli == 1000
MachFloor == 10
AngleScale == 10000
HalfPi == 15708
DegreesPerRadian == 5730
DefaultWindowMs == 2000
DefaultThreshold == 3
DefaultMinFreq == 100
DefaultMaxFreq == 1200

(* ------------------------------- bounds -------------------------------- *)
\* frames of a session in which the user may act at any time
MaxFrames == 7
\* user events of such a session
MaxInputs == 2
\* frames of a session set up before its first frame and then left running
LongFrames == 310
\* milliseconds between two frames
FrameMs == 16
\* the largest radius, distance and growth per step handed to
\* hasWaveCrossedObserver, and the steps a wavefront is followed for
MaxDist == 6
MaxGrowth == 3
MaxSteps == 8
\* the most timestamps handed to calculateObservedFrequency
MaxHits == 3
\* frames and user events of a session at the Mach controls
KeyFrames == 4
KeyInputs == 3
\* frames of a session whose pulse rate the user changes once, early on
WrapFrames == 140
\* the frames within which that change comes
RateChangeFrames == 10
\* frames of a session whose frames come at uneven times
ClockFrames == 12
\* the longest time between two of its frames, in milliseconds
LongStepMs == 1000

Px(n) == n * MachScale
MachOne == MachScale
InitialMach == MachScale \div 2

\* positions of the Mach slider the user picks (0.5, 1.0, 3.0)
MachValues == {10, 20, 60}
\* positions of the pulse-rate slider the user picks
IntervalValues == {5, 20}
\* positions of the Mach slider at and next to its two ends
MachEnds == {0, 1, 59, 60}
\* the Mach numbers of the preset buttons, in hundredths
Presets == {85, 100, 150, 204, 280}
\* Mach numbers handed to calculateDopplerShift, in thousandths
DopplerMachs == {0, 5, 9, 10, 500, 1000, 1500, 2000, 3000}
\* source positions handed to it, in 1/20 pixel
DopplerSources == { <<2000, 1000>>, <<0, 0>> }
\* observer positions handed to it, as offsets from the source in 1/20 pixel:
\* offsets whose length is a whole number, so that the square root is exact,
\* and on an axis where that length is 1 pixel, so that it is exact in
\* floating point too
DopplerOffsets ==
    { <<0, 0>>, <<10, 0>>, <<-10, 0>>, <<6, 8>>, <<-8, -6>>, <<0, 19>>,
      <<20, 0>>, <<-20, 0>>, <<0, 20>>, <<24, 32>>, <<32, -24>>, <<-24, 32>>,
      <<-32, -24>>, <<2000, 0>>, <<-2000, 0>>, <<0, -2000>>, <<1200, 1600>>,
      <<1600, 1200>>, <<-1200, -1600>>, <<-1600, 1200>> }
\* Mach numbers handed to getFlightRegime, isSupersonic and
\* calculateMachAngle, in slider steps: the slider's range and beyond it
RegimeMachs == (SliderMin * MachScale - 2)..(SliderMax * MachScale + 2)
\* timestamps, current times and windows handed to
\* calculateObservedFrequency, in milliseconds
HitTimes == {0, 1, 1000, 1500}
CurrentTimes == {1000, 2000, 2001}
Windows == {1000, HitWindowMs}
\* Mach numbers of the sketch handed to its inline physics, in slider steps
\* (every position of the slider), and numbers of waves that hit in a frame
InlineMachs == (SliderMin * MachScale)..(SliderMax * MachScale)
WaveCounts == 0..(BoomThreshold + 1)
\* the times between two frames of such a session, in milliseconds: none (two
\* frames within the same millisecond), a usual frame, a stalled tab
ClockSteps == {0, FrameMs, LongStepMs}
\* mouse positions of press and drag events, in pixels
MousePoints == { <<700, 250>>, <<152, 250>>, <<154, 250>>, <<286, 0>> }

VARIABLES
    pulses,            \* the pulse collection, oldest first
    mach, previousMach,
    machSlider, emissionSlider,
    emissionInterval, frameCounter,
    sourceX,
    paused, movingSourceMode,
    barrierFlash, sonicBoomFlash, observerFlash,
    observerX, observerY, draggingObserver,
    observerWaveHits, observedFrequency,
    clock,             \* millis()
    \* history variables: they record what happened, the program has none of them
    frames,            \* calls of draw() so far
    inputs,            \* user events counted against MaxInputs
    lastOp,            \* the handler that ran last
    dropped,           \* pulses the last resetSimulation threw away
    tick,              \* what the last draw() did
    run,               \* totals since the last resetSimulation
    passage,           \* the barrier signals since mach last was off Mach 1
    call               \* the last call of a function, its arguments and result

vars == << pulses, mach, previousMach, machSlider, emissionSlider,
           emissionInterval, frameCounter, sourceX, paused, movingSourceMode,
           barrierFlash, sonicBoomFlash, observerFlash, observerX, observerY,
           draggingObserver, observerWaveHits, observedFrequency, clock,
           frames, inputs, lastOp, dropped, tick, run, passage, call >>

\* the state of the sketch
sketchVars == << pulses, mach, previousMach, machSlider, emissionSlider,
                 emissionInterval, frameCounter, sourceX, paused,
                 movingSourceMode, barrierFlash, sonicBoomFlash, observerFlash,
                 observerX, observerY, draggingObserver, observerWaveHits,
                 observedFrequency, clock, frames, inputs, lastOp, dropped,
                 tick, run, passage >>

sourceStartX == Px(SourceStartPx)
sourceY == Px(Height) \div 2

NoTick == [ ran |-> FALSE, emitted |-> FALSE, hits |-> 0, pushed |-> 0,
            crossed |-> {}, retired |-> {}, boom |-> FALSE,
            barrier |-> FALSE, wrapped |-> FALSE, advanced |-> << >>,
            angles |-> {} ]

NoRun == [ ticks |-> 0, emitted |-> 0, retired |-> 0, booms |-> 0,
           intervals |-> {}, machs |-> {} ]

NoCall == [ fn |-> "none" ]

\* the side of Mach 1 a Mach number is on
Side(m) ==
    IF m < MachOne THEN "below" ELSE IF m = MachOne THEN "sonic" ELSE "above"

\* before the first frame: mach is on no passage
NoPassage == [ from |-> Side(InitialMach), now |-> Side(InitialMach),
               signals |-> 0, sonic |-> 0 ]

(* ---------------------------- pure functions --------------------------- *)
Sq(a) == a * a

\* dist(x1, y1, x2, y2), squared
DistSq(x1, y1, x2, y2) == Sq(x2 - x1) + Sq(y2 - y1)

\* constrain(v, lo, hi)
Constrain(v, lo, hi) == IF v < lo THEN lo ELSE IF v > hi THEN hi ELSE v

\* physics module: hasWaveCrossedObserver, with the distance squared
hasCrossedClosed(radiusBefore, radiusAfter, distSq) ==
    Sq(radiusBefore) <= distSq /\ Sq(radiusAfter) >= distSq

hasWaveCrossedObserver(radiusBefore, radiusAfter, distSq) ==
    Sq(radiusBefore) < distSq /\ Sq(radiusAfter) >= distSq

\* physics module: isSonicBoom
isSonicBoom(wavesHitThisFrame, m, threshold) ==
    wavesHitThisFrame >= threshold /\ m > MachOne

\* physics module: getFlightRegime
FlightRegimeNoSonic(m) == IF m <= MachOne THEN "subsonic" ELSE "supersonic"

getFlightRegime(m) ==
    IF m < MachOne THEN "subsonic"
    ELSE IF m = MachOne THEN "sonic" ELSE "supersonic"

(* ------------------------ the pulse loop of draw() --------------------- *)
\* the crossing test of the loop
CrossedAlways(radiusBefore, radiusAfter, distBeforeSq, distAfterSq) ==
    Sq(radiusAfter) >= distAfterSq

CrossedSingleDistance(radiusBefore, radiusAfter, distBeforeSq, distAfterSq) ==
    hasWaveCrossedObserver(radiusBefore, radiusAfter, distAfterSq)

CrossedClosed(radiusBefore, radiusAfter, distBeforeSq, distAfterSq) ==
    Sq(radiusBefore) <= distBeforeSq /\ Sq(radiusAfter) >= distAfterSq

CrossedObserver(radiusBefore, radiusAfter, distBeforeSq, distAfterSq) ==
    /\ Sq(radiusBefore) < distBeforeSq
    /\ Sq(radiusAfter) >= distAfterSq
    /\ distAfterSq <= Sq(radiusAfter)
    /\ distBeforeSq >= Sq(radiusBefore)

\* the removal test of the loop
TooLargeOrLeadingEdgeOff(p) ==
    p.radius > Px(MaxRadius) \/ p.x + p.radius > Px(Width + RetireMargin)

TooLarge(p) == p.radius > Px(MaxRadius)

OffScreen(p) == p.x - p.radius > Px(Width + RetireMargin)

TooLargeOrOffScreen(p) ==
    p.radius > Px(MaxRadius) \/ p.x - p.radius > Px(Width + RetireMargin)

\* pulses.splice(i, 1)
Splice(s, i) == [ j \in 1..(Len(s) - 1) |-> IF j < i THEN s[j] ELSE s[j + 1] ]

\* one pass of the loop body, for the pulse at index i
\* (LoopBodyDriftAlways: the pulse drifts in moving-source mode too)
LoopBodyDriftAlways(st, i, m, now) ==
    LET p == st.ps[i]
        distBefore == DistSq(p.x, p.y, observerX, observerY)
        q == [ p EXCEPT !.radius = @ + Px(speedOfSound),
                        !.x = @ + m * speedOfSound ]
        distAfter == DistSq(q.x, q.y, observerX, observerY)
        radiusBefore == q.radius - Px(speedOfSound)
        radiusAfter == q.radius
        hit == CrossedObserver(radiusBefore, radiusAfter, distBefore, distAfter)
        r == [ q EXCEPT !.crossings = IF hit THEN @ + 1 ELSE @ ]
        gone == TooLargeOrOffScreen(r)
    IN  [ ps |-> IF gone THEN Splice(st.ps, i) ELSE [ st.ps EXCEPT ![i] = r ],
          hits |-> IF hit THEN st.hits + 1 ELSE st.hits,
          waveHits |-> IF hit THEN Append(st.waveHits, now) ELSE st.waveHits,
          flash |-> IF hit THEN ObserverFlashSteps ELSE st.flash,
          crossed |-> IF hit THEN st.crossed \cup {r.id} ELSE st.crossed,
          retired |-> IF gone THEN st.retired \cup {r.id} ELSE st.retired,
          advanced |-> << r >> \o st.advanced ]

LoopBody(st, i, m, now) ==
    LET p == st.ps[i]
        distBefore == DistSq(p.x, p.y, observerX, observerY)
        q == [ p EXCEPT !.radius = @ + Px(speedOfSound),
                        !.x = IF ~movingSourceMode
                              THEN @ + m * speedOfSound ELSE @ ]
        distAfter == DistSq(q.x, q.y, observerX, observerY)
        radiusBefore == q.radius - Px(speedOfSound)
        radiusAfter == q.radius
        hit == CrossedObserver(radiusBefore, radiusAfter, distBefore, distAfter)
        r == [ q EXCEPT !.crossings = IF hit THEN @ + 1 ELSE @ ]
        gone == TooLargeOrOffScreen(r)
    IN  [ ps |-> IF gone THEN Splice(st.ps, i) ELSE [ st.ps EXCEPT ![i] = r ],
          hits |-> IF hit THEN st.hits + 1 ELSE st.hits,
          waveHits |-> IF hit THEN Append(st.waveHits, now) ELSE st.waveHits,
          flash |-> IF hit THEN ObserverFlashSteps ELSE st.flash,
          crossed |-> IF hit THEN st.crossed \cup {r.id} ELSE st.crossed,
          retired |-> IF gone THEN st.retired \cup {r.id} ELSE st.retired,
          advanced |-> << r >> \o st.advanced ]

\* for (let i = pulses.length - 1; i >= 0; i--)
\* (UpdatePulsesForward: the loop run from the oldest pulse up, its index
\* stepping on after a splice)
RECURSIVE UpdatePulsesForward(_, _, _, _)
UpdatePulsesForward(st, i, m, now) ==
    LET j == Len(st.advanced) + 1
    IN  IF j > Len(st.ps) THEN st
        ELSE UpdatePulsesForward(LoopBody(st, j, m, now), i, m, now)

RECURSIVE UpdatePulses(_, _, _, _)
UpdatePulses(st, i, m, now) ==
    IF i < 1 \/ i > Len(st.ps) THEN st
    ELSE UpdatePulses(LoopBody(st, i, m, now), i - 1, m, now)

\* observerWaveHits.filter(t => now - t < 2000)
\* (AllHits: nothing filtered out)
AllHits(hs, now) == hs

RECURSIVE RecentHits(_, _)
RecentHits(hs, now) ==
    IF hs = << >> THEN << >>
    ELSE IF now - Head(hs) < HitWindowMs
         THEN << Head(hs) >> \o RecentHits(Tail(hs), now)
         ELSE RecentHits(Tail(hs), now)

\* one step of a flash level's decay
Decay(level) == IF level > 0 THEN level - 1 ELSE 0

\* the sound barrier test of draw()
BarrierSideChange(prev, m) == Side(prev) # Side(m)

BarrierRising(prev, m) == prev < MachOne /\ m >= MachOne

BarrierCrossed(prev, m) ==
    (prev < MachOne /\ m >= MachOne) \/ (prev > MachOne /\ m <= MachOne)

\* the emission test of draw()
EmissionLate(counter, interval) == counter > interval

EmissionDue(counter, interval) == counter >= interval

\* pulses.push({x: sourceX, y: sourceY, radius: 0, birthX: sourceX})
\* (NewPulseAfterMove: pushed after the source's advance)
NewPulseAfterMove(id) ==
    LET movedX == IF movingSourceMode
                  THEN sourceX + machSlider * speedOfSound ELSE sourceX
    IN  [ x |-> movedX, y |-> sourceY, radius |-> 0, birthX |-> movedX,
          id |-> id, crossings |-> 0, obsMoved |-> FALSE,
          bornMoving |-> movingSourceMode ]

NewPulse(id) ==
    [ x |-> sourceX, y |-> sourceY, radius |-> 0, birthX |-> sourceX,
      id |-> id, crossings |-> 0, obsMoved |-> FALSE,
      bornMoving |-> movingSourceMode ]

(* -------------------------------- Init --------------------------------- *)
Init ==
    /\ pulses = << >>
    /\ mach = InitialMach
    /\ previousMach = InitialMach
    /\ machSlider = InitialMach
    /\ emissionSlider = InitialInterval
    /\ emissionInterval = InitialInterval
    /\ frameCounter = 0
    /\ sourceX = sourceStartX
    /\ paused = FALSE
    /\ movingSourceMode = FALSE
    /\ barrierFlash = 0
    /\ sonicBoomFlash = 0
    /\ observerFlash = 0
    /\ observerX = Px(Width - ObserverStartOffset)
    /\ observerY = Px(Height) \div 2
    /\ draggingObserver = FALSE
    /\ observerWaveHits = << >>
    /\ observedFrequency = 0
    /\ clock = 0
    /\ frames = 0
    /\ inputs = 0
    /\ lastOp = "setup"
    /\ dropped = 0
    /\ tick = NoTick
    /\ run = NoRun
    /\ passage = NoPassage
    /\ call = NoCall


(* ------------------------------- draw() -------------------------------- *)
\* the sonic boom test of draw()
SonicBoomAnyMach(wavesHitThisFrame, m) == wavesHitThisFrame >= BoomThreshold

SonicBoom(wavesHitThisFrame, m) ==
    wavesHitThisFrame >= BoomThreshold /\ m > MachOne

\* if (!paused)
AlwaysRuns == TRUE

SimulationRuns == ~paused

\* what draw() and drawInfo() test before a routine evaluates asin(1 / mach)
ConeDrawn(m, ps) == m > MachOne /\ Len(ps) > 2

GeometryDrawnFromSonic(m) == m >= MachOne

GeometryDrawn(m) == m > MachOne

AngleShown(m) == ~(m < MachOne) /\ ~(m = MachOne)

\* the routines of a frame that evaluate asin(1 / mach), ps being the pulses
\* drawn
MachAngleUses(m, ps) ==
    { routine \in {"drawMachCone", "drawGeometry", "drawInfo"} :
        \/ routine = "drawMachCone" /\ ConeDrawn(m, ps)
        \/ routine = "drawGeometry" /\ GeometryDrawn(m)
        \/ routine = "drawInfo" /\ AngleShown(m) }

\* the pulses the loop starts from: after the emission and the source's wrap
EmissionAfterWrap(emit, wrap, id) ==
    IF emit THEN Append(IF wrap THEN << >> ELSE pulses, NewPulse(id))
    ELSE IF wrap THEN << >> ELSE pulses

AfterEmission(emit, wrap, id) ==
    IF wrap THEN << >>
    ELSE IF emit THEN Append(pulses, NewPulse(id)) ELSE pulses

\* the pulse loop over ps, with wavesHitThisFrame starting at 0
LoopResult(ps, m, now) ==
    UpdatePulses([ ps |-> ps, hits |-> 0, waveHits |-> observerWaveHits,
                   flash |-> Decay(observerFlash), crossed |-> {},
                   retired |-> {}, advanced |-> << >> ],
                 Len(ps), m, now)

\* the assignments of one frame, st being what the pulse loop did
Frame(now, m, interval, barrier, counter, emit, movedX, wrap, st) ==
    LET boom == SonicBoom(st.hits, m)
        recent == RecentHits(st.waveHits, now)
    IN  /\ clock' = now
        /\ frames' = frames + 1
        /\ lastOp' = "draw"
        /\ previousMach' = mach
        /\ mach' = m
        /\ emissionInterval' = interval
        /\ barrierFlash' = IF barrier THEN BarrierFlashSteps
                           ELSE Decay(barrierFlash)
        /\ passage' =
               [ from |-> IF passage.now = "sonic" THEN passage.from
                          ELSE passage.now,
                 now |-> Side(m),
                 signals |-> (IF passage.now = "sonic" THEN passage.signals
                              ELSE 0) + (IF barrier THEN 1 ELSE 0),
                 sonic |-> (IF passage.now = "sonic" THEN passage.sonic
                            ELSE 0) + (IF m = MachOne THEN 1 ELSE 0) ]
        /\ IF SimulationRuns
           THEN /\ frameCounter' = IF emit THEN 0 ELSE counter
                /\ sourceX' = IF ~movingSourceMode THEN sourceX
                              ELSE IF wrap THEN sourceStartX ELSE movedX
                /\ pulses' = st.ps
                /\ observerFlash' = st.flash
                /\ sonicBoomFlash' = IF boom THEN SonicBoomFlashSteps
                                     ELSE Decay(sonicBoomFlash)
                /\ observerWaveHits' = recent
                /\ observedFrequency' =
                       IF Len(recent) > 1 THEN (Len(recent) * 1000) \div 2
                       ELSE 0
                /\ tick' = [ ran |-> TRUE, emitted |-> emit, hits |-> st.hits,
                             pushed |-> Len(st.waveHits) - Len(observerWaveHits),
                             crossed |-> st.crossed, retired |-> st.retired,
                             boom |-> boom, barrier |-> barrier,
                             wrapped |-> wrap, advanced |-> st.advanced,
                             angles |-> MachAngleUses(m, st.ps) ]
                /\ run' = [ ticks |-> run.ticks + 1,
                            emitted |-> run.emitted + (IF emit THEN 1 ELSE 0),
                            retired |-> run.retired + Cardinality(st.retired),
                            booms |-> run.booms + (IF boom THEN 1 ELSE 0),
                            intervals |-> run.intervals \cup {interval},
                            machs |-> run.machs \cup {m} ]
           ELSE /\ observerFlash' = Decay(observerFlash)
                /\ sonicBoomFlash' = Decay(sonicBoomFlash)
                /\ tick' = [ NoTick EXCEPT !.barrier = barrier,
                                            !.angles = MachAngleUses(m, pulses) ]
                /\ UNCHANGED << frameCounter, sourceX, pulses, observerWaveHits,
                                observedFrequency, run >>
        /\ UNCHANGED << machSlider, emissionSlider, paused, movingSourceMode,
                        observerX, observerY, draggingObserver, inputs,
                        dropped, call >>

\* one frame, dt milliseconds after the previous one
Draw(dt) ==
    LET now == clock + dt
        m == machSlider
        interval == emissionSlider
        barrier == BarrierCrossed(mach, m)
        counter == frameCounter + 1
        emit == EmissionDue(counter, interval)
        movedX == sourceX + m * speedOfSound
        wrap == movingSourceMode /\ movedX > Px(Width + WrapMargin)
    IN  Frame(now, m, interval, barrier, counter, emit, movedX, wrap,
              LoopResult(AfterEmission(emit, wrap, frames + 1), m, now))

(* ----------------------------- user events ----------------------------- *)
\* a user event: free before the first frame, counted against cap after it
Input(cap, op) ==
    /\ frames = 0 \/ inputs < cap
    /\ inputs' = IF frames = 0 THEN inputs ELSE inputs + 1
    /\ lastOp' = op
    /\ tick' = NoTick
    /\ UNCHANGED << frames, clock, passage >>

Event(cap, op) == Input(cap, op) /\ UNCHANGED call

TogglePause(cap) ==
    /\ Event(cap, "togglePause")
    /\ paused' = ~paused
    /\ UNCHANGED << pulses, mach, previousMach, machSlider, emissionSlider,
                    emissionInterval, frameCounter, sourceX, movingSourceMode,
                    barrierFlash, sonicBoomFlash, observerFlash, observerX,
                    observerY, draggingObserver, observerWaveHits,
                    observedFrequency, dropped, run >>

\* the assignments of resetSimulation()
ResetBody ==
    /\ pulses' = << >>
    /\ sourceX' = sourceStartX
    /\ frameCounter' = 0
    /\ barrierFlash' = 0
    /\ dropped' = Len(pulses)
    /\ run' = NoRun

ResetSimulation(cap) ==
    /\ Event(cap, "resetSimulation")
    /\ ResetBody
    /\ UNCHANGED << mach, previousMach, machSlider, emissionSlider,
                    emissionInterval, paused, movingSourceMode, sonicBoomFlash,
                    observerFlash, observerX, observerY, draggingObserver,
                    observerWaveHits, observedFrequency >>

\* toggleMode() without its resetSimulation()
ModeFlipOnly ==
    /\ movingSourceMode' = ~movingSourceMode
    /\ UNCHANGED << pulses, sourceX, frameCounter, barrierFlash, dropped, run >>

ModeFlip ==
    /\ movingSourceMode' = ~movingSourceMode
    /\ ResetBody

ToggleMode(cap) ==
    /\ Event(cap, "toggleMode")
    /\ ModeFlip
    /\ UNCHANGED << mach, previousMach, machSlider, emissionSlider,
                    emissionInterval, paused, sonicBoomFlash, observerFlash,
                    observerX, observerY, draggingObserver, observerWaveHits,
                    observedFrequency >>

MousePressed(cap, mouseX, mouseY) ==
    /\ Event(cap, "mousePressed")
    /\ draggingObserver' =
           IF DistSq(Px(mouseX), Px(mouseY), observerX, observerY)
                  < Sq(Px(GrabRadius))
           THEN TRUE ELSE draggingObserver
    /\ UNCHANGED << pulses, mach, previousMach, machSlider, emissionSlider,
                    emissionInterval, frameCounter, sourceX, paused,
                    movingSourceMode, barrierFlash, sonicBoomFlash,
                    observerFlash, observerX, observerY, observerWaveHits,
                    observedFrequency, dropped, run >>

MouseDragged(cap, mouseX, mouseY) ==
    LET newX == IF draggingObserver
                THEN Constrain(Px(mouseX), Px(ObserverMargin),
                               Px(Width - ObserverMargin))
                ELSE observerX
        newY == IF draggingObserver
                THEN Constrain(Px(mouseY), Px(ObserverMargin),
                               Px(Height - ObserverMargin))
                ELSE observerY
        movedNow == newX # observerX \/ newY # observerY
    IN  /\ Event(cap, "mouseDragged")
        /\ observerX' = newX
        /\ observerY' = newY
        /\ pulses' = [ i \in 1..Len(pulses) |->
                         [ pulses[i] EXCEPT !.obsMoved = @ \/ movedNow ] ]
        /\ UNCHANGED << mach, previousMach, machSlider, emissionSlider,
                        emissionInterval, frameCounter, sourceX, paused,
                        movingSourceMode, barrierFlash, sonicBoomFlash,
                        observerFlash, draggingObserver, observerWaveHits,
                        observedFrequency, dropped, run >>

MouseReleased(cap) ==
    /\ Event(cap, "mouseReleased")
    /\ draggingObserver' = FALSE
    /\ UNCHANGED << pulses, mach, previousMach, machSlider, emissionSlider,
                    emissionInterval, frameCounter, sourceX, paused,
                    movingSourceMode, barrierFlash, sonicBoomFlash,
                    observerFlash, observerX, observerY, observerWaveHits,
                    observedFrequency, dropped, run >>

\* the user moves the Mach slider
SlideMach(cap, v) ==
    /\ Event(cap, "machSlider")
    /\ machSlider' = v
    /\ UNCHANGED << pulses, mach, previousMach, emissionSlider,
                    emissionInterval, frameCounter, sourceX, paused,
                    movingSourceMode, barrierFlash, sonicBoomFlash,
                    observerFlash, observerX, observerY, draggingObserver,
                    observerWaveHits, observedFrequency, dropped, run >>

\* the user moves the pulse-rate slider
SlideEmission(cap, v) ==
    /\ Event(cap, "emissionSlider")
    /\ emissionSlider' = v
    /\ UNCHANGED << pulses, mach, previousMach, machSlider,
                    emissionInterval, frameCounter, sourceX, paused,
                    movingSourceMode, barrierFlash, sonicBoomFlash,
                    observerFlash, observerX, observerY, draggingObserver,
                    observerWaveHits, observedFrequency, dropped, run >>

(* ------------------- presets and arrow keys (keyPressed) ---------------- *)
\* a Mach number of the model (in slider steps), in hundredths
InCents(m) == m * (Cents \div MachScale)

\* machSlider.value(v), v in hundredths: a range input keeps its value within
\* [min, max] and on the nearest step; the result is in slider steps
SliderValue(v) ==
    LET step == Cents \div MachScale
    IN  (Constrain(v, SliderMin * Cents, SliderMax * Cents) + step \div 2)
            \div step

\* max(0, mach - 0.1)
LeftArrowMach(m) ==
    IF InCents(m) - KeyStep < 0 THEN 0 ELSE InCents(m) - KeyStep

\* min(3, mach + 0.1)
RightArrowUnclamped(m) == InCents(m) + KeyStep

RightArrowMach(m) ==
    IF InCents(m) + KeyStep > 3 * Cents THEN 3 * Cents
    ELSE InCents(m) + KeyStep

\* the assignments of a handler that sets the Mach slider to v
SetMachSlider(v) ==
    /\ machSlider' = SliderValue(v)
    /\ call' = [ fn |-> "machSlider.value", arg |-> v ]
    /\ UNCHANGED << pulses, mach, previousMach, emissionSlider,
                    emissionInterval, frameCounter, sourceX, paused,
                    movingSourceMode, barrierFlash, sonicBoomFlash,
                    observerFlash, observerX, observerY, draggingObserver,
                    observerWaveHits, observedFrequency, dropped, run >>

\* a preset button
Preset(cap, v) == Input(cap, "preset") /\ SetMachSlider(v)

\* keyPressed, LEFT_ARROW
KeyLeft(cap) == Input(cap, "leftArrow") /\ SetMachSlider(LeftArrowMach(mach))

\* keyPressed, RIGHT_ARROW
KeyRight(cap) ==
    Input(cap, "rightArrow") /\ SetMachSlider(RightArrowMach(mach))

(* --------------------------- the physics module ------------------------ *)
\* A call of a function of the module records its arguments and its result
\* and leaves the sketch as it is.  The functions read and write nothing but
\* their arguments, so a session is one call from the state nothing was
\* called in.
CallHasWaveCrossed(radiusBefore, radiusAfter, d) ==
    /\ call = NoCall
    /\ call' = [ fn |-> "hasWaveCrossedObserver",
                 radiusBefore |-> radiusBefore, radiusAfter |-> radiusAfter,
                 d |-> d,
                 result |-> hasWaveCrossedObserver(radiusBefore, radiusAfter,
                                                   Sq(d)) ]
    /\ UNCHANGED sketchVars

\* a wavefront of radius 0 that will grow by c a step, its centre d away from
\* the observer
StartWave(c, d) ==
    /\ call = NoCall
    /\ call' = [ fn |-> "wavefront", c |-> c, d |-> d, radius |-> 0,
                 steps |-> 0, crossings |-> 0 ]
    /\ UNCHANGED sketchVars

\* one step of the wavefront: radius += c, and the crossing test
GrowWave ==
    /\ call.fn = "wavefront"
    /\ call.steps < MaxSteps
    /\ LET radiusBefore == call.radius
           radiusAfter == call.radius + call.c
           hit == hasWaveCrossedObserver(radiusBefore, radiusAfter,
                                         Sq(call.d))
       IN  call' = [ call EXCEPT !.radius = radiusAfter,
                                 !.steps = @ + 1,
                                 !.crossings = IF hit THEN @ + 1 ELSE @ ]
    /\ UNCHANGED sketchVars

(* calculateDopplerShift.  Its Mach number is in thousandths, its positions *)
(* in 1/20 pixel, and its shift an exact fraction num/den with den >= 0;   *)
(* den = 0 is the Infinity that 1 / 0 gives.                               *)
\* Math.sqrt, rounded down
RECURSIVE SqrtWithin(_, _, _)
SqrtWithin(n, lo, hi) ==
    IF lo >= hi THEN lo
    ELSE LET mid == (lo + hi + 1) \div 2
         IN  IF mid * mid <= n THEN SqrtWithin(n, mid, hi)
             ELSE SqrtWithin(n, lo, mid - 1)

Sqrt(n) == SqrtWithin(n, 0, IF n < 46340 THEN n ELSE 46340)

Fraction(num, den) == [ num |-> num, den |-> den ]
FractionLess(a, b) == a.num * b.den < b.num * a.den
FractionMin(a, b) == IF FractionLess(b, a) THEN b ELSE a
FractionMax(a, b) == IF FractionLess(a, b) THEN b ELSE a
\* 1 / (num/den), the fraction's den kept >= 0
OneOver(a) ==
    IF a.num < 0 THEN Fraction(-a.den, -a.num) ELSE Fraction(a.den, a.num)

\* if (mach < 0.01) return 1
AtRestZero(m) == m = 0

AtRest(m) == m < MachFloor

\* if (distance < 1) return 1
Coincident(distance) == distance = 0

TooClose(distance) == distance < Px(1)

\* 1 - mach * alignment * 0.5, alignment being dx / distance
DopplerDivisor(m, dx, distance) ==
    Fraction(2 * Milli * distance - m * dx, 2 * Milli * distance)

\* shift, before it is clamped
DopplerFormula(m, dx, distance, moving) ==
    IF moving THEN OneOver(DopplerDivisor(m, dx, distance))
    ELSE Fraction(10 * Milli * distance + 3 * m * dx, 10 * Milli * distance)

\* Math.max(0.3, Math.min(3, shift))
ClampAbove(shift) == FractionMin(Fraction(3, 1), shift)

ClampShift(shift) ==
    FractionMax(Fraction(3, 10), FractionMin(Fraction(3, 1), shift))

calculateDopplerShift(m, obsX, obsY, srcX, srcY, moving) ==
    IF AtRest(m) THEN Fraction(1, 1)
    ELSE LET dx == obsX - srcX
             dy == obsY - srcY
             distance == Sqrt(dx * dx + dy * dy)
         IN  IF TooClose(distance) THEN Fraction(1, 1)
             ELSE ClampShift(DopplerFormula(m, dx, distance, moving))

\* the divisor of the call, when the call comes to divide by it
DivisorOf(m, obsX, obsY, srcX, srcY, moving) ==
    LET dx == obsX - srcX
        dy == obsY - srcY
        distance == Sqrt(dx * dx + dy * dy)
    IN  IF ~AtRest(m) /\ ~TooClose(distance) /\ moving
        THEN << DopplerDivisor(m, dx, distance) >> ELSE << >>

CallDopplerShift(m, obsX, obsY, srcX, srcY, moving) ==
    /\ call = NoCall
    /\ call' = [ fn |-> "calculateDopplerShift", mach |-> m,
                 observerX |-> obsX, observerY |-> obsY,
                 sourceX |-> srcX, sourceY |-> srcY,
                 movingSourceMode |-> moving,
                 divisor |-> DivisorOf(m, obsX, obsY, srcX, srcY, moving),
                 result |-> calculateDopplerShift(m, obsX, obsY, srcX, srcY,
                                                  moving) ]
    /\ UNCHANGED sketchVars

(* calculateObservedFrequency.  Its result is a fraction, in waves per      *)
(* second.                                                                 *)
\* t => currentTime - t < windowMs
InWindowClosed(t, currentTime, windowMs) == currentTime - t <= windowMs

InWindow(t, currentTime, windowMs) == currentTime - t < windowMs

\* waveHitTimes.filter(...)
RECURSIVE RecentWithin(_, _, _)
RecentWithin(waveHitTimes, currentTime, windowMs) ==
    IF waveHitTimes = << >> THEN << >>
    ELSE IF InWindow(Head(waveHitTimes), currentTime, windowMs)
         THEN << Head(waveHitTimes) >>
                  \o RecentWithin(Tail(waveHitTimes), currentTime, windowMs)
         ELSE RecentWithin(Tail(waveHitTimes), currentTime, windowMs)

calculateObservedFrequency(waveHitTimes, currentTime, windowMs) ==
    LET recentHits == RecentWithin(waveHitTimes, currentTime, windowMs)
    IN  IF Len(recentHits) <= 1 THEN Fraction(0, 1)
        ELSE Fraction(Len(recentHits) * Milli, windowMs)

\* the sequences of at most n timestamps
RECURSIVE HitLists(_)
HitLists(n) ==
    IF n = 0 THEN { << >> }
    ELSE HitLists(n - 1)
             \cup { Append(hs, t) : hs \in HitLists(n - 1), t \in HitTimes }

CallObservedFrequency(waveHitTimes, currentTime, windowMs) ==
    /\ call = NoCall
    /\ call' = [ fn |-> "calculateObservedFrequency",
                 waveHitTimes |-> waveHitTimes,
                 currentTime |-> currentTime, windowMs |-> windowMs,
                 result |-> calculateObservedFrequency(waveHitTimes,
                                                       currentTime, windowMs) ]
    /\ UNCHANGED sketchVars

(* getFlightRegime and isSupersonic, of a Mach number in slider steps       *)
isSupersonic(m) == m > MachOne

CallFlightRegime(m) ==
    /\ call = NoCall
    /\ call' = [ fn |-> "getFlightRegime", mach |-> m,
                 result |-> getFlightRegime(m),
                 isSupersonic |-> isSupersonic(m) ]
    /\ UNCHANGED sketchVars

(* calculateMachAngle and calculateMachAngleDegrees, of a Mach number in    *)
(* slider steps.  An angle is held in 1/AngleScale radian or degree, to    *)
(* within a few units; a result is << angle >>, or << >> for NaN.          *)
\* Math.sin of an angle within [0, pi/2], by its Taylor series to the 9th
\* power; the result in 1/AngleScale
Sin(angle) ==
    LET t == (angle * angle) \div AngleScale
        a4 == AngleScale - t \div 72
        a3 == AngleScale - (t * a4) \div (42 * AngleScale)
        a2 == AngleScale - (t * a3) \div (20 * AngleScale)
        a1 == AngleScale - (t * a2) \div (6 * AngleScale)
    IN  (angle * a1) \div AngleScale

\* Math.asin(num / den), 0 <= num <= den: the largest angle within
\* [lo, hi] whose sine is at most num / den
RECURSIVE AsinWithin(_, _, _, _)
AsinWithin(num, den, lo, hi) ==
    IF lo >= hi THEN lo
    ELSE LET mid == (lo + hi + 1) \div 2
         IN  IF Sin(mid) * den <= num * AngleScale
             THEN AsinWithin(num, den, mid, hi)
             ELSE AsinWithin(num, den, lo, mid - 1)

Asin(num, den) == AsinWithin(num, den, 0, HalfPi)

\* if (mach <= 1) return NaN
BelowSonic(m) == m < MachOne

NoMachCone(m) == m <= MachOne

calculateMachAngle(m) ==
    IF NoMachCone(m) THEN << >> ELSE << Asin(MachScale, m) >>

\* radians * (180 / Math.PI), NaN staying NaN
calculateMachAngleDegrees(m) ==
    LET radians == calculateMachAngle(m)
    IN  IF radians = << >> THEN << >>
        ELSE << (radians[1] * DegreesPerRadian) \div 100 >>

\* a call of both functions; before is the call that came before it, if any
MachAngleCall(m, before) ==
    /\ call' = [ fn |-> "calculateMachAngle", mach |-> m,
                 result |-> calculateMachAngle(m),
                 degrees |-> calculateMachAngleDegrees(m),
                 before |-> before ]
    /\ UNCHANGED sketchVars

CallMachAngle(m) == call = NoCall /\ MachAngleCall(m, << >>)

CallMachAngleAgain(m) ==
    /\ call.fn = "calculateMachAngle"
    /\ call.before = << >>
    /\ MachAngleCall(m, << call.mach, call.result >>)

(* ------------------- the inline physics of the sketch ------------------- *)
(* The sketch's own copies of the module's calculations.  They read the    *)
(* globals mach, observerX, observerY and movingSourceMode, handed over    *)
(* here as m, obsX, obsY and moving; the Mach number is in slider steps,   *)
(* positions are in 1/20 pixel, and a result is an exact fraction.         *)
RECURSIVE GCD(_, _)
GCD(a, b) == IF b = 0 THEN a ELSE GCD(b, a % b)

\* the fraction in lowest terms
Reduce(a) ==
    LET g == GCD(IF a.num < 0 THEN -a.num ELSE a.num, a.den)
    IN  IF g = 0 THEN a ELSE Fraction(a.num \div g, a.den \div g)

\* k * a
Scaled(k, a) == LET r == Reduce(a) IN Fraction(k * r.num, r.den)

\* p5: constrain(n, low, high) is Math.max(Math.min(n, high), low)
FractionConstrain(n, low, high) == FractionMax(FractionMin(n, high), low)

\* p5: map(n, start1, stop1, start2, stop2), n and its range in slider steps
Map(n, start1, stop1, start2, stop2) ==
    Fraction((n - start1) * (stop2 - start2) + start2 * (stop1 - start1),
             stop1 - start1)

\* sketch: if (mach < 0.01) return 1
InlineAtRestTenth(m) == 10 * m < MachScale

InlineAtRest(m) == Cents * m < MachScale

\* sketch: calculateDopplerShift(pulseX, pulseY)
InlineDopplerShift(pulseX, pulseY, m, obsX, obsY, moving) ==
    IF InlineAtRest(m) THEN Fraction(1, 1)
    ELSE LET dx == obsX - pulseX
             dy == obsY - pulseY
             d == Sqrt(dx * dx + dy * dy)
         IN  IF d < Px(1) THEN Fraction(1, 1)
             ELSE FractionConstrain(
                      IF moving
                      THEN OneOver(Fraction(2 * MachScale * d - m * dx,
                                            2 * MachScale * d))
                      ELSE Fraction(10 * MachScale * d + 3 * m * dx,
                                    10 * MachScale * d),
                      Fraction(3, 10), Fraction(3, 1))

\* sketch: the frequency of playObserverSound(dopplerShift)
ObserverTone(dopplerShift) ==
    FractionConstrain(Scaled(400, dopplerShift),
                      Fraction(100, 1), Fraction(1200, 1))

\* sketch: the frequency of playPulseSound()
PulseTone(m) == Map(m, 0, 3 * MachScale, 200, 800)

\* sketch: observedFrequency after the tick's filter, in waves per second
InlineObservedFrequency(waveHits, now) ==
    LET recent == RecentHits(waveHits, now)
    IN  IF Len(recent) > 1 THEN Fraction(Len(recent), 2) ELSE Fraction(0, 1)

\* module: calculatePulseFrequency, of a Mach number in thousandths
calculatePulseFrequency(m) == Fraction(200 * 3 * Milli + m * 600, 3 * Milli)

\* module: calculateDopplerFrequency
calculateDopplerFrequency(baseFrequency, dopplerShift, minFreq, maxFreq) ==
    FractionMax(Fraction(minFreq, 1),
                FractionMin(Fraction(maxFreq, 1),
                            Scaled(baseFrequency, dopplerShift)))

\* the module's Mach number for the sketch's
InThousandths(m) == m * (Milli \div MachScale)

\* the sketch's Doppler shift and observer tone for a pulse at the source
\* position, and the module's for the same arguments
CompareDoppler(m, obsX, obsY, srcX, srcY, moving) ==
    /\ call = NoCall
    /\ call' = [ fn |-> "inline calculateDopplerShift", mach |-> m,
                 observerX |-> obsX, observerY |-> obsY,
                 pulseX |-> srcX, pulseY |-> srcY,
                 movingSourceMode |-> moving,
                 inline |-> InlineDopplerShift(srcX, srcY, m, obsX, obsY,
                                               moving),
                 module |-> calculateDopplerShift(InThousandths(m), obsX, obsY,
                                                  srcX, srcY, moving),
                 inlineTone |->
                     ObserverTone(InlineDopplerShift(srcX, srcY, m, obsX, obsY,
                                                     moving)),
                 moduleTone |->
                     calculateDopplerFrequency(
                         400,
                         calculateDopplerShift(InThousandths(m), obsX, obsY,
                                               srcX, srcY, moving),
                         DefaultMinFreq, DefaultMaxFreq) ]
    /\ UNCHANGED sketchVars

\* the sketch's emission tone and the module's
ComparePulseTone(m) ==
    /\ call = NoCall
    /\ call' = [ fn |-> "inline playPulseSound", mach |-> m,
                 inline |-> PulseTone(m),
                 module |-> calculatePulseFrequency(InThousandths(m)) ]
    /\ UNCHANGED sketchVars

\* the sketch's observed frequency and the module's, with its default window
CompareObservedFrequency(waveHits, now) ==
    /\ call = NoCall
    /\ call' = [ fn |-> "inline observedFrequency", waveHits |-> waveHits,
                 now |-> now,
                 inline |-> InlineObservedFrequency(waveHits, now),
                 module |-> calculateObservedFrequency(waveHits, now,
                                                       DefaultWindowMs) ]
    /\ UNCHANGED sketchVars

\* the sketch's boom condition and the module's, with its default threshold
CompareSonicBoom(wavesHitThisFrame, m) ==
    /\ call = NoCall
    /\ call' = [ fn |-> "inline sonic boom",
                 wavesHitThisFrame |-> wavesHitThisFrame, mach |-> m,
                 inline |-> SonicBoom(wavesHitThisFrame, m),
                 module |-> isSonicBoom(wavesHitThisFrame, m,
                                        DefaultThreshold) ]
    /\ UNCHANGED sketchVars

(* --------------------------- specifications ---------------------------- *)
DrawFrame == frames < MaxFrames /\ Draw(FrameMs)

Next ==
    \/ DrawFrame
    \/ TogglePause(MaxInputs)
    \/ ResetSimulation(MaxInputs)
    \/ ToggleMode(MaxInputs)
    \/ \E pt \in MousePoints : MousePressed(MaxInputs, pt[1], pt[2])
    \/ \E pt \in MousePoints : MouseDragged(MaxInputs, pt[1], pt[2])
    \/ MouseReleased(MaxInputs)
    \/ \E v \in MachValues : SlideMach(MaxInputs, v)
    \/ \E v \in IntervalValues : SlideEmission(MaxInputs, v)

\* a session in which the user acts at any time
Spec == Init /\ [][Next]_vars

DrawLongFrame == frames < LongFrames /\ Draw(FrameMs)

NextLong ==
    \/ DrawLongFrame
    \/ TogglePause(0)
    \/ ResetSimulation(0)
    \/ ToggleMode(0)
    \/ \E pt \in MousePoints : MousePressed(0, pt[1], pt[2])
    \/ \E pt \in MousePoints : MouseDragged(0, pt[1], pt[2])
    \/ MouseReleased(0)
    \/ \E v \in MachValues : SlideMach(0, v)
    \/ \E v \in IntervalValues : SlideEmission(0, v)

\* a session set up before its first frame and then left running
SpecLong == Init /\ [][NextLong]_vars

DrawWrapFrame == frames < WrapFrames /\ Draw(FrameMs)

ChangeRate(v) == frames <= RateChangeFrames /\ SlideEmission(1, v)

NextWrap ==
    \/ DrawWrapFrame
    \/ ToggleMode(0)
    \/ \E v \in MachValues : SlideMach(0, v)
    \/ \E v \in IntervalValues : ChangeRate(v)

\* a session set up before its first frame, whose pulse rate the user changes
\* at most once more during its first frames
SpecWrap == Init /\ [][NextWrap]_vars

DrawKeysFrame == frames < KeyFrames /\ Draw(FrameMs)

NextKeys ==
    \/ DrawKeysFrame
    \/ \E v \in MachValues \cup MachEnds : SlideMach(KeyInputs, v)
    \/ \E v \in Presets : Preset(KeyInputs, v)
    \/ KeyLeft(KeyInputs)
    \/ KeyRight(KeyInputs)

\* a session at the Mach controls: slider, preset buttons and arrow keys
SpecKeys == Init /\ [][NextKeys]_vars

NextPhysics ==
    \/ \E rb, ra, d \in 0..MaxDist : CallHasWaveCrossed(rb, ra, d)
    \/ \E c \in 1..MaxGrowth, d \in 0..MaxDist : StartWave(c, d)
    \/ GrowWave
    \/ \E m \in DopplerMachs, src \in DopplerSources,
          off \in DopplerOffsets, moving \in BOOLEAN :
            CallDopplerShift(m, src[1] + off[1], src[2] + off[2],
                             src[1], src[2], moving)
    \/ \E hs \in HitLists(MaxHits), now \in CurrentTimes, w \in Windows :
            CallObservedFrequency(hs, now, w)
    \/ \E m \in RegimeMachs : CallFlightRegime(m)
    \/ \E m \in RegimeMachs : CallMachAngle(m)
    \/ \E m \in RegimeMachs : CallMachAngleAgain(m)
    \/ \E m \in InlineMachs, src \in DopplerSources,
          off \in DopplerOffsets, moving \in BOOLEAN :
            CompareDoppler(m, src[1] + off[1], src[2] + off[2],
                           src[1], src[2], moving)
    \/ \E m \in InlineMachs : ComparePulseTone(m)
    \/ \E hs \in HitLists(MaxHits), now \in CurrentTimes :
            CompareObservedFrequency(hs, now)
    \/ \E n \in WaveCounts, m \in InlineMachs : CompareSonicBoom(n, m)

\* a call of a function of the physics module, or a wavefront followed
SpecPhysics == Init /\ [][NextPhysics]_vars

DrawClockFrame(dt) == frames < ClockFrames /\ Draw(dt)

NextClock ==
    \/ \E dt \in ClockSteps : DrawClockFrame(dt)
    \/ ToggleMode(0)
    \/ \E pt \in MousePoints : MousePressed(0, pt[1], pt[2])
    \/ \E pt \in MousePoints : MouseDragged(0, pt[1], pt[2])
    \/ \E v \in MachValues : SlideMach(0, v)
    \/ \E v \in IntervalValues : SlideEmission(0, v)

\* a session set up before its first frame, whose frames come at uneven times
SpecClock == Init /\ [][NextClock]_vars

(* ------------------------------- claims -------------------------------- *)
\* the pulses the last frame's loop handled, and the pulses held now
Handled == { tick.advanced[i] : i \in 1..Len(tick.advanced) }
Held == { pulses[i] : i \in 1..Len(pulses) }
AfterDraw == lastOp = "draw"
AfterTick == lastOp = "draw" /\ tick.ran

\* C1 as stated: no pulse ever registers a second crossing, in either mode and
\* whatever the user does between frames.
CounterC1 == \A p \in Handled \cup Held : p.crossings <= 1

\* C1, amended: a frame counts a pulse at most once (one increment of
\* wavesHitThisFrame and one timestamp for each pulse that crossed), and in
\* moving-source mode a pulse whose observer was not moved during its life
\* registers at most one crossing in its life, whatever the Mach number did.
TheoremC1 ==
    /\ tick.hits = Cardinality(tick.crossed)
    /\ tick.pushed = tick.hits
    /\ \A p \in Handled \cup Held :
           (p.bornMoving /\ ~p.obsMoved) => p.crossings <= 1

\* a pulse in moving-source mode that crossed in an earlier frame and was
\* advanced again in the last one
WitnessC1 ==
    \E p \in Handled :
        /\ p.bornMoving /\ ~p.obsMoved
        /\ p.crossings = 1
        /\ p.id \notin tick.crossed

\* C2: from a reset state in wind mode, 100 running frames at mach 0.5 and
\* interval 20 emit exactly 5 pulses, retire none and trigger no sonic boom.
ScenarioC2 ==
    /\ run.ticks = 100
    /\ run.intervals = {20}
    /\ run.machs = {InitialMach}
    /\ ~movingSourceMode

TheoremC2 ==
    ScenarioC2 =>
        /\ run.emitted = 5
        /\ Len(pulses) = 5
        /\ run.retired = 0
        /\ run.booms = 0

WitnessC2 == ScenarioC2 /\ run.emitted = 5

\* C3 as stated: after resetSimulation the pulse collection is empty, the
\* source is at its start, the emission counter is 0 and the hit history is
\* empty.
CounterC3 ==
    lastOp = "resetSimulation" =>
        /\ pulses = << >>
        /\ sourceX = sourceStartX
        /\ frameCounter = 0
        /\ observerWaveHits = << >>

\* C4: toggleMode flips the mode and resets in the same step, and every pulse
\* held was born in the mode that is on.
TheoremC4 ==
    /\ [](\A p \in Held : p.bornMoving = movingSourceMode)
    /\ [][ lastOp' = "toggleMode" =>
             /\ movingSourceMode' = ~movingSourceMode
             /\ pulses' = << >>
             /\ sourceX' = sourceStartX
             /\ frameCounter' = 0 ]_vars

\* a mode switch that threw pulses away
WitnessC4 == lastOp = "toggleMode" /\ dropped > 0

\* C5: a frame drawn while paused changes neither the pulses, the source, the
\* emission counter, the hit history nor the observed frequency, and emits
\* nothing, counts no crossing and triggers no boom.
TheoremC5 ==
    [][ (frames' # frames /\ paused) =>
          /\ UNCHANGED << pulses, sourceX, frameCounter, observerWaveHits,
                          observedFrequency >>
          /\ ~tick'.ran /\ ~tick'.emitted /\ ~tick'.boom
          /\ tick'.hits = 0 /\ tick'.crossed = {} /\ tick'.retired = {}
          /\ sonicBoomFlash' < SonicBoomFlashSteps ]_vars

\* a frame drawn while paused with pulses in the collection
WitnessC5 == AfterDraw /\ paused /\ ~tick.ran /\ pulses # << >>

\* C6: a frame signals a sonic boom exactly when at least 3 pulses crossed the
\* observer in it and mach > 1.
TheoremC6 ==
    AfterDraw =>
        /\ tick.boom <=>
              (tick.ran /\ Cardinality(tick.crossed) >= 3 /\ mach > MachOne)
        /\ tick.boom <=> sonicBoomFlash = SonicBoomFlashSteps

WitnessC6 == AfterDraw /\ tick.boom /\ Cardinality(tick.crossed) >= 3

\* three or more simultaneous crossings at mach 1: no boom
SonicManyHits ==
    AfterDraw /\ Cardinality(tick.crossed) >= 3 /\ mach = MachOne /\ ~tick.boom

\* C7 as stated: a frame raises the barrier signal exactly when its flight
\* regime differs from the previous frame's.
CounterC7 ==
    AfterDraw =>
        (barrierFlash = BarrierFlashSteps
            <=> getFlightRegime(previousMach) # getFlightRegime(mach))

\* C7, amended: a frame raises the barrier signal exactly when its flight
\* regime differs from the previous frame's and the previous regime was not
\* sonic (leaving mach = 1 exactly, in either direction, raises nothing).
TheoremC7 ==
    AfterDraw =>
        (barrierFlash = BarrierFlashSteps
            <=> /\ getFlightRegime(previousMach) # getFlightRegime(mach)
                /\ getFlightRegime(previousMach) # "sonic")

\* a frame that came down from supersonic to sonic and raised the signal
WitnessC7 ==
    /\ AfterDraw
    /\ getFlightRegime(previousMach) = "supersonic"
    /\ getFlightRegime(mach) = "sonic"
    /\ barrierFlash = BarrierFlashSteps

\* C8: a running frame emits a pulse exactly when the incremented counter has
\* reached emissionInterval, and then zeroes the counter; with one interval k
\* since the reset, N running frames have emitted N \div k pulses and the
\* counter is N % k, below k.
TheoremC8 ==
    /\ [](\A k \in run.intervals :
              run.intervals = {k} =>
                  /\ run.emitted = run.ticks \div k
                  /\ frameCounter = run.ticks % k
                  /\ frameCounter < k)
    /\ [][ (frames' # frames /\ ~paused) =>
             /\ tick'.emitted <=> frameCounter + 1 >= emissionInterval'
             /\ frameCounter' = IF tick'.emitted THEN 0 ELSE frameCounter + 1
             /\ frameCounter' < emissionInterval'
             /\ run'.emitted - run.emitted = (IF tick'.emitted THEN 1 ELSE 0)
             /\ Cardinality({ p \in { tick'.advanced[i] :
                                        i \in 1..Len(tick'.advanced) } :
                                  p.id = frames' })
                    = (IF tick'.emitted /\ ~tick'.wrapped THEN 1 ELSE 0) ]_vars

\* the third emission of a run with one interval
WitnessC8 ==
    AfterTick /\ tick.emitted /\ run.emitted = 3
        /\ Cardinality(run.intervals) = 1

\* the position a handled pulse had before the last frame's drift
XBefore(p) == IF movingSourceMode THEN p.x ELSE p.x - mach * speedOfSound

\* C9 as stated: the pulses a frame reports as crossing are those for which
\* hasWaveCrossedObserver holds of the radius before, the radius after and the
\* distance from the pulse's position after the advance.
CounterC9 ==
    AfterTick =>
        tick.crossed =
            { p.id : p \in { q \in Handled :
                hasWaveCrossedObserver(
                    q.radius - Px(speedOfSound), q.radius,
                    DistSq(q.x, q.y, observerX, observerY)) } }

\* C9, amended: the pulses a frame reports as crossing are those whose radius
\* before the advance was below the distance from the position before the
\* drift and whose radius after it is at least the distance from the position
\* after the drift; in moving-source mode, where the position does not
\* change, these are the pulses hasWaveCrossedObserver accepts.
TheoremC9 ==
    AfterTick =>
        /\ tick.crossed =
              { p.id : p \in { q \in Handled :
                  /\ Sq(q.radius - Px(speedOfSound))
                         < DistSq(XBefore(q), q.y, observerX, observerY)
                  /\ Sq(q.radius)
                         >= DistSq(q.x, q.y, observerX, observerY) } }
        /\ movingSourceMode => CounterC9

\* a wind-mode frame that reports a crossing hasWaveCrossedObserver rejects
WitnessC9 ==
    /\ AfterTick /\ ~movingSourceMode
    /\ \E p \in Handled :
          /\ p.id \in tick.crossed
          /\ ~hasWaveCrossedObserver(
                  p.radius - Px(speedOfSound), p.radius,
                  DistSq(p.x, p.y, observerX, observerY))

\* C10 as stated: a frame retires the pulses whose radius exceeds 600 or whose
\* rightmost edge x + radius is beyond width + 100.
CounterC10 ==
    AfterTick =>
        tick.retired =
            { p.id : p \in { q \in Handled :
                \/ q.radius > Px(MaxRadius)
                \/ q.x + q.radius > Px(Width + RetireMargin) } }

\* C10, amended: a frame retires exactly the pulses whose radius after the
\* advance exceeds 600 or whose leftmost edge x - radius is beyond
\* width + 100, and keeps the others in their order.
StaysC10(p) ==
    ~(p.radius > Px(MaxRadius) \/ p.x - p.radius > Px(Width + RetireMargin))

TheoremC10 ==
    AfterTick =>
        /\ tick.retired = { p.id : p \in { q \in Handled : ~StaysC10(q) } }
        /\ pulses = SelectSeq(tick.advanced, StaysC10)

\* a pulse retired for having left the screen, its radius still within 600
WitnessC10 ==
    /\ AfterTick
    /\ \E p \in Handled :
          /\ p.id \in tick.retired
          /\ p.radius <= Px(MaxRadius)
          /\ p.x + p.radius > Px(Width + RetireMargin)

\* a pulse retired for its radius
RetiredByRadius ==
    AfterTick /\ \E p \in Handled : p.id \in tick.retired /\ p.radius > Px(MaxRadius)

\* C11: in moving-source mode a running frame moves the source right by
\* mach * speedOfSound; the frame in which that takes it beyond width + 50
\* puts it back at its start and empties the pulse collection, a pulse
\* emitted in the same frame included, so that the frame ends with no pulse
\* and counts no crossing.  In wind mode the source stays where it is.
TheoremC11 ==
    [][ (frames' # frames /\ ~paused) =>
          LET movedX == sourceX + mach' * speedOfSound
              beyond == movedX > Px(Width + WrapMargin)
          IN  /\ ~movingSourceMode => (sourceX' = sourceX /\ ~tick'.wrapped)
              /\ movingSourceMode =>
                    /\ tick'.wrapped <=> beyond
                    /\ sourceX' = IF beyond THEN sourceStartX ELSE movedX
                    /\ beyond =>
                          /\ pulses' = << >>
                          /\ tick'.advanced = << >>
                          /\ tick'.hits = 0
                          /\ tick'.crossed = {}
                          /\ tick'.pushed = 0
                          /\ ~tick'.boom ]_vars

\* a frame that emitted a pulse and wrapped the source, with earlier pulses
\* in flight
WitnessC11 ==
    /\ AfterTick /\ tick.wrapped /\ tick.emitted
    /\ run.emitted > 1
    /\ pulses = << >>
    /\ sourceX = sourceStartX

\* C12: mach, and the slider it is read from, stay within [0, 3] whatever
\* the user does at the slider, the preset buttons and the arrow keys; an
\* arrow key asks for mach - 0.1 or mach + 0.1, held at 0 and at 3, which is
\* a multiple of the slider's step and so becomes the slider's value.
MachRange == (SliderMin * MachScale)..(SliderMax * MachScale)

TheoremC12 ==
    /\ [](/\ mach \in MachRange
          /\ previousMach \in MachRange
          /\ machSlider \in MachRange
          /\ call.fn = "machSlider.value" =>
                call.arg \in (SliderMin * Cents)..(SliderMax * Cents))
    /\ [][ /\ lastOp' = "leftArrow" =>
                machSlider' = (IF mach - 2 < 0 THEN 0 ELSE mach - 2)
           /\ lastOp' = "rightArrow" =>
                machSlider' = (IF mach + 2 > 60 THEN 60 ELSE mach + 2) ]_vars

\* a right-arrow step from mach 2.95, held at 3, and then read by a frame
WitnessC12 ==
    /\ AfterDraw
    /\ previousMach = 59 /\ mach = 60
    /\ call = [ fn |-> "machSlider.value", arg |-> 3 * Cents ]

\* a left-arrow step from mach 0.05, held at 0
LeftHeldC12 == lastOp = "leftArrow" /\ mach = 1 /\ machSlider = 0

\* the Concorde preset, 2.04, read by a frame as 2.05
PresetReadC12 ==
    /\ AfterDraw /\ mach = 41
    /\ call = [ fn |-> "machSlider.value", arg |-> 204 ]

\* C13: hasWaveCrossedObserver(radiusBefore, radiusAfter, d) holds exactly
\* when radiusBefore < d and radiusAfter >= d; a wavefront that grows from 0
\* by c a step toward an observer d > 0 away has crossed exactly once as soon
\* as its radius has reached d, and not before (and never when d = 0).
TheoremC13 ==
    /\ call.fn = "hasWaveCrossedObserver" =>
          (call.result <=>
              (call.radiusBefore < call.d /\ call.radiusAfter >= call.d))
    /\ call.fn = "wavefront" =>
          call.crossings =
              (IF call.d > 0 /\ call.radius >= call.d THEN 1 ELSE 0)

\* a wavefront that reached the observer's distance exactly in one step,
\* crossed in it, and has grown further since without crossing again
WitnessC13 ==
    /\ call.fn = "wavefront"
    /\ call.d > 0 /\ call.d % call.c = 0
    /\ call.radius >= call.d + 2 * call.c
    /\ call.crossings = 1

\* the squared distance between the source and the observer of a call
CallDistSq == DistSq(call.sourceX, call.sourceY, call.observerX, call.observerY)
\* a result, compared with a whole number
ResultIs(n) == call.result.num = n * call.result.den
ResultAbove(n) == call.result.num > n * call.result.den
ResultBelow(n) == call.result.num < n * call.result.den

\* C14: calculateDopplerShift returns exactly 1 when mach < 0.01 or when the
\* observer is less than 1 away from the source, in both modes.
TheoremC14 ==
    call.fn = "calculateDopplerShift" =>
        ((call.mach < MachFloor \/ CallDistSq < Sq(Px(1))) => ResultIs(1))

\* a call at mach 0.5 with the observer half a pixel ahead of the source
WitnessC14 ==
    /\ call.fn = "calculateDopplerShift"
    /\ call.mach = 500
    /\ call.observerX > call.sourceX
    /\ CallDistSq > 0 /\ CallDistSq < Sq(Px(1))
    /\ ResultIs(1)

\* a call below mach 0.01 with the observer far ahead of the source
AtRestC14 ==
    /\ call.fn = "calculateDopplerShift"
    /\ call.mach = 9 /\ call.movingSourceMode
    /\ call.observerX > call.sourceX
    /\ CallDistSq > Sq(Px(1))
    /\ ResultIs(1)

\* C15: calculateDopplerShift returns a value within [0.3, 3], also when the
\* divisor 1 - mach * alignment * 0.5 is zero or negative.
TheoremC15 ==
    call.fn = "calculateDopplerShift" =>
        /\ call.result.den > 0
        /\ 10 * call.result.num >= 3 * call.result.den
        /\ call.result.num <= 3 * call.result.den

\* a call whose divisor is negative
WitnessC15 ==
    /\ call.fn = "calculateDopplerShift"
    /\ call.divisor # << >>
    /\ call.divisor[1].num < 0
    /\ call.result = Fraction(3, 10)

\* a call whose divisor is zero
ZeroDivisorC15 ==
    /\ call.fn = "calculateDopplerShift"
    /\ call.divisor # << >>
    /\ call.divisor[1].num = 0
    /\ call.result = Fraction(3, 1)

\* C16 as stated: with mach >= 0.01 and the observer at least 1 away,
\* calculateDopplerShift is above 1 when the observer is ahead of the source
\* (to its right) and below 1 when it is behind, in both modes.
CounterC16 ==
    (/\ call.fn = "calculateDopplerShift"
     /\ call.mach >= MachFloor
     /\ CallDistSq >= Sq(Px(1)))
    => /\ call.observerX > call.sourceX => ResultAbove(1)
       /\ call.observerX < call.sourceX => ResultBelow(1)

\* C17 as stated: in moving-source mode, when both guards pass, the divisor
\* 1 - mach * alignment * 0.5 is not zero.
CounterC17 ==
    (/\ call.fn = "calculateDopplerShift"
     /\ call.movingSourceMode
     /\ call.mach >= MachFloor
     /\ CallDistSq >= Sq(Px(1)))
    => /\ call.divisor # << >>
       /\ call.divisor[1].num # 0

\* the timestamps of a call that are less than windowMs old
CountedC18 ==
    { i \in 1..Len(call.waveHitTimes) :
          call.currentTime - call.waveHitTimes[i] < call.windowMs }

\* C18: calculateObservedFrequency counts the timestamps t with
\* currentTime - t < windowMs, returns 0 when fewer than 2 are counted and
\* count / (windowMs / 1000) otherwise: with the 2000 ms window, 0 or
\* count / 2; a timestamp exactly windowMs old is not counted.
TheoremC18 ==
    call.fn = "calculateObservedFrequency" =>
        LET count == Cardinality(CountedC18)
        IN  /\ call.result.den > 0
            /\ count < 2 => call.result.num = 0
            /\ count >= 2 =>
                  call.result.num * call.windowMs
                      = count * 1000 * call.result.den
            /\ (call.windowMs = 2000 /\ count >= 2) =>
                  2 * call.result.num = count * call.result.den

\* three timestamps of which one is exactly 2000 ms old: 2 / 2 = 1 wave per
\* second
WitnessC18 ==
    /\ call.fn = "calculateObservedFrequency"
    /\ call.windowMs = 2000
    /\ Len(call.waveHitTimes) = 3
    /\ \E i \in 1..3 :
          call.currentTime - call.waveHitTimes[i] = call.windowMs
    /\ Cardinality(CountedC18) = 2
    /\ call.result.num = call.result.den

\* two timestamps of which one is exactly as old as the window: 0
OneLeftC18 ==
    /\ call.fn = "calculateObservedFrequency"
    /\ Len(call.waveHitTimes) = 2
    /\ Cardinality(CountedC18) = 1
    /\ \E i \in 1..2 :
          call.currentTime - call.waveHitTimes[i] = call.windowMs
    /\ call.result.num = 0

\* C19: getFlightRegime returns subsonic exactly for mach < 1, sonic exactly
\* for mach = 1 and supersonic exactly for mach > 1, and isSupersonic holds
\* exactly when the regime is supersonic.
TheoremC19 ==
    call.fn = "getFlightRegime" =>
        /\ call.result \in {"subsonic", "sonic", "supersonic"}
        /\ call.result = "subsonic" <=> call.mach < MachScale
        /\ call.result = "sonic" <=> call.mach = MachScale
        /\ call.result = "supersonic" <=> call.mach > MachScale
        /\ call.isSupersonic <=> call.result = "supersonic"

\* the call at mach 1
WitnessC19 ==
    /\ call.fn = "getFlightRegime"
    /\ call.mach = MachScale
    /\ call.result = "sonic" /\ ~call.isSupersonic

\* the calls one slider step below and above mach 1
BesideSonicC19 ==
    /\ call.fn = "getFlightRegime"
    /\ \/ call.mach = MachScale - 1 /\ call.result = "subsonic"
       \/ call.mach = MachScale + 1 /\ call.result = "supersonic"

\* C20: calculateMachAngle returns NaN exactly when mach <= 1; for mach > 1
\* it returns an angle strictly between 0 and pi/2, smaller than the angle
\* of any smaller mach > 1; calculateMachAngleDegrees returns NaN for the
\* same Mach numbers, and otherwise an angle strictly between 0 and 90.
TheoremC20 ==
    call.fn = "calculateMachAngle" =>
        /\ call.result = << >> <=> call.mach <= MachScale
        /\ call.degrees = << >> <=> call.mach <= MachScale
        /\ call.result # << >> =>
              /\ call.result[1] > 0 /\ call.result[1] < HalfPi
              /\ call.degrees[1] > 0 /\ call.degrees[1] < 90 * AngleScale
        /\ (/\ call.before # << >>
            /\ call.before[2] # << >>
            /\ call.result # << >>)
           => /\ call.before[1] < call.mach =>
                    call.result[1] < call.before[2][1]
              /\ call.before[1] > call.mach =>
                    call.result[1] > call.before[2][1]

\* the call at mach 3 after the call at mach 2.95
WitnessC20 ==
    /\ call.fn = "calculateMachAngle"
    /\ call.mach = SliderMax * MachScale
    /\ call.before # << >>
    /\ call.before[1] = SliderMax * MachScale - 1
    /\ call.before[2] # << >>
    /\ call.result # << >>
    /\ call.result[1] < call.before[2][1]

\* the calls at mach 1 and at mach 0.5: NaN from both functions
SentinelC20 ==
    /\ call.fn = "calculateMachAngle"
    /\ call.mach \in {MachScale, MachScale \div 2}
    /\ call.result = << >> /\ call.degrees = << >>

\* the call at mach 2: 30 degrees, pi/6
ThirtyDegreesC20 ==
    /\ call.fn = "calculateMachAngle"
    /\ call.mach = 2 * MachScale
    /\ call.result = << 5236 >>
    /\ call.degrees[1] \in (30 * AngleScale - 50)..(30 * AngleScale + 50)

\* C21: every unpaused tick advances each pulse that is in the collection when
\* the update pass starts by exactly speedOfSound, exactly once, whatever the
\* Mach number and the mode and also when the pass removes pulses; the pulses
\* kept are advanced ones; and no step of the program decreases the radius of
\* a pulse.
TheoremC21 ==
    [][ /\ (frames' # frames /\ ~paused /\ ~tick'.wrapped) =>
              /\ Len(tick'.advanced)
                     = Len(pulses) + (IF tick'.emitted THEN 1 ELSE 0)
              /\ \A i \in 1..Len(pulses) :
                     Cardinality({ j \in 1..Len(tick'.advanced) :
                                     tick'.advanced[j].id = pulses[i].id }) = 1
              /\ \A i \in 1..Len(pulses), j \in 1..Len(tick'.advanced) :
                     tick'.advanced[j].id = pulses[i].id =>
                         tick'.advanced[j].radius
                             = pulses[i].radius + Px(speedOfSound)
              /\ \A j \in 1..Len(pulses') :
                     \E k \in 1..Len(tick'.advanced) :
                         tick'.advanced[k] = pulses'[j]
        /\ (frames' # frames /\ ~paused /\ tick'.wrapped) =>
              tick'.advanced = << >> /\ pulses' = << >>
        /\ \A i \in 1..Len(pulses), j \in 1..Len(pulses') :
               pulses'[j].id = pulses[i].id =>
                   pulses'[j].radius >= pulses[i].radius ]_vars

\* a tick whose pass removed a pulse and advanced others that stay
WitnessC21 ==
    /\ AfterTick
    /\ tick.retired # {}
    /\ Len(pulses) >= 2
    /\ Len(tick.advanced) = Len(pulses) + Cardinality(tick.retired)

\* C22: in wind mode the source stays at its start position in every state and
\* each unpaused tick moves every pulse's x by mach * speedOfSound, the pulse
\* emitted in it included; in moving-source mode every pulse stays at its birth
\* x for its whole life, and each unpaused tick that does not wrap moves the
\* source by mach * speedOfSound.
TheoremC22 ==
    /\ [](~movingSourceMode => sourceX = sourceStartX)
    /\ [](movingSourceMode =>
            \A p \in Handled \cup Held : p.x = p.birthX /\ p.bornMoving)
    /\ [][ (frames' # frames /\ ~paused) =>
             IF movingSourceMode
             THEN /\ ~tick'.wrapped => sourceX' = sourceX + mach' * speedOfSound
                  /\ \A i \in 1..Len(pulses), j \in 1..Len(tick'.advanced) :
                         tick'.advanced[j].id = pulses[i].id =>
                             tick'.advanced[j].x = pulses[i].x
             ELSE /\ sourceX' = sourceX
                  /\ \A i \in 1..Len(pulses), j \in 1..Len(tick'.advanced) :
                         tick'.advanced[j].id = pulses[i].id =>
                             tick'.advanced[j].x
                                 = pulses[i].x + mach' * speedOfSound
                  /\ \A j \in 1..Len(tick'.advanced) :
                         tick'.advanced[j].id = frames' =>
                             tick'.advanced[j].x
                                 = sourceX + mach' * speedOfSound ]_vars

\* a wind-mode tick, after a change of the Mach number, that moved a pulse
\* emitted in an earlier tick
WitnessC22 ==
    /\ AfterTick
    /\ ~movingSourceMode
    /\ mach # previousMach
    /\ \E p \in Held : p.radius > Px(speedOfSound) /\ p.x # p.birthX

\* C23: at the end of every unpaused tick, and so in every state, every pulse
\* in the collection has radius <= 600 and x - radius <= width + 100; a pulse
\* that breaks either bound after its advance is removed in that same tick,
\* and no other pulse is.
TheoremC23 ==
    /\ \A p \in Held :
           /\ p.radius <= Px(MaxRadius)
           /\ p.x - p.radius <= Px(Width + RetireMargin)
    /\ AfterTick =>
           \A p \in Handled :
               (p.radius > Px(MaxRadius)
                   \/ p.x - p.radius > Px(Width + RetireMargin))
               <=> (p.id \in tick.retired /\ p \notin Held)

\* a tick that removed a pulse whose radius passed 600 and kept the others
WitnessC23 ==
    /\ AfterTick
    /\ \E p \in Handled : p.radius > Px(MaxRadius) /\ p.id \in tick.retired
    /\ pulses # << >>

\* a pulse kept with a radius of exactly 600
AtLimitC23 == \E p \in Held : p.radius = Px(MaxRadius)

\* a tick that removed a pulse that left the canvas with a radius under 600
OffScreenC23 ==
    /\ AfterTick
    /\ \E p \in Handled :
           /\ p.radius <= Px(MaxRadius)
           /\ p.x - p.radius > Px(Width + RetireMargin)
           /\ p.id \in tick.retired

\* C24: with a clock that never runs backwards, the wave-hit history is in
\* non-decreasing time order in every state; after every unpaused tick it holds
\* only timestamps t with now - t < 2000 ms; and a tick appends the current
\* time once for each crossing it detected, so that the history after the tick
\* is the history before it, followed by one timestamp per crossing, with the
\* timestamps of 2000 ms ago and older taken out.
TheoremC24 ==
    /\ [](\A i, j \in 1..Len(observerWaveHits) :
              i < j => observerWaveHits[i] <= observerWaveHits[j])
    /\ [](AfterTick =>
              /\ \A i \in 1..Len(observerWaveHits) :
                     /\ observerWaveHits[i] <= clock
                     /\ clock - observerWaveHits[i] < HitWindowMs
              /\ tick.pushed = Cardinality(tick.crossed))
    /\ [][ (frames' # frames /\ ~paused) =>
             LET crossings == Cardinality(tick'.crossed)
                 appended == observerWaveHits
                                 \o [ k \in 1..crossings |-> clock' ]
                 InTime(t) == clock' - t < HitWindowMs
             IN  /\ clock' >= clock
                 /\ observerWaveHits' = SelectSeq(appended, InTime) ]_vars

\* a tick that appended a timestamp behind an equal one of an earlier tick
WitnessC24 ==
    /\ AfterTick
    /\ tick.pushed >= 1
    /\ Len(observerWaveHits) >= 2
    /\ observerWaveHits[Len(observerWaveHits) - 1] = clock
    /\ tick.pushed = 1

\* a tick that dropped a timestamp exactly 2000 ms old
DroppedC24 ==
    /\ AfterTick
    /\ tick.pushed = 0
    /\ observerWaveHits = << >>
    /\ observedFrequency = 0
    /\ clock = 2 * LongStepMs
    /\ \E p \in Held : p.crossings = 1

\* C25: a frame evaluates asin(1 / mach) only when mach > 1: the cone drawing
\* (with more than 2 pulses held), the geometry diagram and the angle readout
\* each evaluate it in exactly the frames with mach > 1, paused or not, so
\* that its argument 1 / mach is always strictly between 0 and 1.
TheoremC25 ==
    AfterDraw =>
        /\ tick.angles # {} => mach > MachOne
        /\ "drawGeometry" \in tick.angles <=> mach > MachOne
        /\ "drawInfo" \in tick.angles <=> mach > MachOne
        /\ "drawMachCone" \in tick.angles
               <=> (mach > MachOne /\ Len(pulses) > 2)

\* a supersonic frame that drew the cone, the diagram and the readout
WitnessC25 ==
    /\ AfterDraw
    /\ tick.angles = {"drawMachCone", "drawGeometry", "drawInfo"}

\* a frame at exactly Mach 1, with pulses to draw a cone through, that
\* evaluated no Mach angle
SonicC25 ==
    AfterDraw /\ mach = MachOne /\ Len(pulses) > 2 /\ tick.angles = {}

\* C26: for the same Mach number, mode, positions, timestamps and hit count
\* the sketch's inline physics gives the same results as the physics module:
\* its calculateDopplerShift as the module's, its observer tone as
\* calculateDopplerFrequency(400, shift), its emission tone as
\* calculatePulseFrequency, its observed frequency as
\* calculateObservedFrequency with the default window, and its boom condition
\* as isSonicBoom with the default threshold.
SameValue(a, b) == Reduce(a) = Reduce(b)

TheoremC26 ==
    /\ call.fn = "inline calculateDopplerShift" =>
           /\ SameValue(call.inline, call.module)
           /\ SameValue(call.inlineTone, call.moduleTone)
    /\ call.fn \in {"inline playPulseSound", "inline observedFrequency"} =>
           SameValue(call.inline, call.module)
    /\ call.fn = "inline sonic boom" => call.inline = call.module

\* a moving-source shift strictly between the clamps, from a Mach number of one
\* slider step, that gives a tone strictly between its clamps
WitnessC26 ==
    /\ call.fn = "inline calculateDopplerShift"
    /\ call.mach = 1 /\ call.movingSourceMode
    /\ FractionLess(Fraction(1, 1), call.inline)
    /\ FractionLess(call.inline, Fraction(3, 1))
    /\ FractionLess(Fraction(400, 1), call.inlineTone)
    /\ FractionLess(call.inlineTone, Fraction(1200, 1))

\* a shift of 3 whose tone is clamped to 1200
ClampedToneC26 ==
    /\ call.fn = "inline calculateDopplerShift"
    /\ call.inline = Fraction(3, 1)
    /\ call.inlineTone = Fraction(1200, 1)

\* an observed frequency above 0, and a boom
FrequencyC26 ==
    /\ call.fn = "inline observedFrequency"
    /\ FractionLess(Fraction(0, 1), call.inline)

BoomC26 == call.fn = "inline sonic boom" /\ call.inline

\* C27: in moving-source mode, a pulse whose observer was not moved during its
\* life, at distance d from the observer, has registered exactly one crossing
\* once its radius is >= d > 0 and none before, and it registers it on the
\* tick that takes its radius from below d to d or more; a pulse born exactly
\* at the observer (d = 0) never registers one.
DistanceSqC27(p) == DistSq(p.x, p.y, observerX, observerY)

TheoremC27 ==
    /\ \A p \in Handled \cup Held :
           (p.bornMoving /\ ~p.obsMoved) =>
               p.crossings = IF DistanceSqC27(p) > 0
                                 /\ Sq(p.radius) >= DistanceSqC27(p)
                              THEN 1 ELSE 0
    /\ AfterTick =>
           \A p \in Handled :
               (p.bornMoving /\ ~p.obsMoved) =>
                   (p.id \in tick.crossed
                       <=> /\ Sq(p.radius - Px(speedOfSound)) < DistanceSqC27(p)
                           /\ Sq(p.radius) >= DistanceSqC27(p))

\* a pulse born 100 pixels or more from the observer that registers its
\* crossing in this tick, behind an older pulse that registered its own before
WitnessC27 ==
    /\ AfterTick
    /\ movingSourceMode
    /\ \E p, q \in Handled :
           /\ p.id \in tick.crossed /\ p.crossings = 1
           /\ DistanceSqC27(p) >= Sq(Px(100))
           /\ DistanceSqC27(p) <= Sq(Px(MaxRadius))
           /\ q.id < p.id /\ q.id \notin tick.crossed /\ q.crossings = 1

\* a pulse born exactly at the observer, grown and without a crossing
BornAtObserverC27 ==
    /\ movingSourceMode
    /\ \E p \in Held :
           DistanceSqC27(p) = 0 /\ p.radius > Px(speedOfSound) /\ p.crossings = 0

\* C28: when mach passes from strictly below 1 to strictly above 1, or the
\* reverse, over any number of frames at exactly 1, the barrier signal is
\* raised on exactly one frame of the passage: the frame that arrives at Mach 1
\* or, without a frame at Mach 1, the frame that arrives on the other side.
TheoremC28 ==
    /\ passage.now = Side(mach)
    /\ (AfterDraw /\ passage.now # "sonic" /\ passage.from # passage.now) =>
           /\ passage.signals = 1
           /\ tick.barrier <=> passage.sonic = 0
    /\ (AfterDraw /\ passage.now = "sonic") =>
           /\ passage.signals = 1
           /\ tick.barrier <=> passage.sonic = 1

\* the frame that completes a passage from below to above Mach 1 over two frames
\* at exactly Mach 1
WitnessC28 ==
    /\ AfterDraw
    /\ passage.from = "below" /\ passage.now = "above"
    /\ passage.sonic = 2
    /\ passage.signals = 1

\* the same from above to below
DownwardC28 ==
    /\ AfterDraw
    /\ passage.from = "above" /\ passage.now = "below"
    /\ passage.sonic = 2
    /\ passage.signals = 1

\* C29: the pulse a tick emits is created at the source position held before
\* the tick's source advance and is advanced in that same tick, so that,
\* unless the source's wrap clears the collection in that tick, it ends its
\* emission tick as the youngest pulse with radius speedOfSound; and no pulse
\* with radius 0 is held in any state.
TheoremC29 ==
    /\ [](\A p \in Held : p.radius >= Px(speedOfSound))
    /\ [][ (frames' # frames /\ tick'.emitted) =>
             IF tick'.wrapped THEN pulses' = << >>
             ELSE /\ pulses' # << >>
                  /\ LET q == pulses'[Len(pulses')]
                     IN  /\ q.id = frames'
                         /\ q.radius = Px(speedOfSound)
                         /\ q.birthX = sourceX
                         /\ q.y = sourceY
                         /\ q.x = IF movingSourceMode THEN sourceX
                                  ELSE sourceX + mach' * speedOfSound
                  /\ movingSourceMode =>
                         sourceX' = sourceX + mach' * speedOfSound ]_vars

\* the end of a tick in moving-source mode that emitted a pulse behind the
\* place the source has moved on to
WitnessC29 ==
    /\ AfterTick
    /\ tick.emitted /\ ~tick.wrapped
    /\ movingSourceMode
    /\ pulses # << >>
    /\ pulses[Len(pulses)].radius = Px(speedOfSound)
    /\ pulses[Len(pulses)].birthX = sourceX - mach * speedOfSound
    /\ pulses[Len(pulses)].birthX < sourceX

\* the end of a tick that emitted a pulse and lost it to the source's wrap
WrappedC29 == AfterTick /\ tick.emitted /\ tick.wrapped /\ pulses = << >>

\* C30: the pulse collection is bounded in every state: a pulse is held at
\* most 600 / speedOfSound = 300 tick ends, its radius being speedOfSound times
\* the tick ends it has seen, so that the collection never holds more than 300
\* pulses, and never more than ceil(300 / k) when every tick of the run had the
\* emission interval k; and the radii strictly decrease with the index.
PulseLife == MaxRadius \div speedOfSound

TheoremC30 ==
    /\ Len(pulses) <= PulseLife
    /\ \A k \in IntervalValues :
           run.intervals = {k} => Len(pulses) <= (PulseLife + k - 1) \div k
    /\ \A i \in 1..(Len(pulses) - 1) : pulses[i].radius > pulses[i + 1].radius
    /\ \A p \in Held :
           /\ p.radius <= Px(speedOfSound) * PulseLife
           /\ ~paused => p.radius = Px(speedOfSound) * (frames - p.id + 1)

\* a collection that holds as many pulses as the bound for interval 5 allows
WitnessC30 ==
    /\ run.intervals = {5}
    /\ Len(pulses) = (PulseLife + 4) \div 5
    /\ pulses[1].radius = Px(MaxRadius)

\* the same for interval 20
FullC30 == run.intervals = {20} /\ Len(pulses) = (PulseLife + 19) \div 20

=============================================================================
